---- MODULE Spec2Model ----
(***************************************************************************)
(* Model of the onion-routing teaching simulator: the coordinator          *)
(* (coordinator_py.py) that drives circuits through guard, middle and exit *)
(* and fans events out to browsers, and the relay agent                    *)
(* (relay_agent_py.py) that answers dispatched packets.                    *)
(*                                                                         *)
(* Time is abstracted: a timeout may fire whenever a hop is parked in      *)
(* recv() with no message available, and every `await` that can suspend    *)
(* is a point where other tasks may run.                                   *)
(***************************************************************************)
EXTENDS Integers, Sequences, FiniteSets, TLC

(* ------------------------------ bounds --------------------------------- *)
MaxCircuits == 2      \* circuits a behaviour originates
MaxConns == 2         \* relay connections a behaviour opens
MaxBrowsers == 2      \* browser connections a behaviour opens
MaxTotal == 4         \* circuits + relay connections + browser connections of a behaviour
MaxVolume == 11       \* circuits originated in the volume specification
MaxCounted == 5       \* circuits originated in the correlation specification
MaxManual == 1        \* of which requested by a browser
MaxInbox == 3         \* messages sent to the endpoint in the relay specification

(* -------------------------- program constants -------------------------- *)
Window == 10          \* timing_log[...][-10:]
CorrelationEvery == 5 \* count % 5 == 0

Roles == <<"guard", "middle", "exit">>
RoleSet == {"guard", "middle", "exit"}
TerminalRoles == {"guard", "exit"}

ROLE_VISIBILITY ==
  [guard  |-> [sees_src |-> TRUE,  sees_dst |-> FALSE, sees_prev |-> FALSE, sees_next |-> TRUE],
   middle |-> [sees_src |-> FALSE, sees_dst |-> FALSE, sees_prev |-> TRUE,  sees_next |-> TRUE],
   exit   |-> [sees_src |-> FALSE, sees_dst |-> TRUE,  sees_prev |-> TRUE,  sees_next |-> FALSE]]

NEXT_HOP == [guard |-> "middle", middle |-> "exit", exit |-> "destination"]

\* the per-role simulated address the coordinator uses as the next prev_hop
ROLE_IPS == [guard |-> "10.0.1.2", middle |-> "10.0.2.2", exit |-> "10.0.3.2"]

Unknown == "???"

Srcs == {"10.3.0.5", "10.7.0.9"}
Dsts == {"93.184.10.2", "93.184.20.4"}
PrevHops == {"10.3.0.5", "10.0.1.2", "10.0.2.2"}
LayerVals == {1, 2, 3}

\* pkt.get(key, default)
Get(pkt, key, default) == IF key \in DOMAIN pkt THEN pkt[key] ELSE default

(* ---------------------------- visibility ------------------------------- *)
\* an endpoint that forgets the previous-hop fallback of from_ip
build_log_entry_no_prev(role, pkt) ==
  LET v == ROLE_VISIBILITY[role] IN
  [relay            |-> role,
   circuit_id       |-> Get(pkt, "circuit_id", 0),
   from_ip          |-> IF v.sees_src THEN pkt.src ELSE Unknown,
   to_ip            |-> IF v.sees_dst THEN pkt.dst
                        ELSE IF v.sees_next THEN NEXT_HOP[role]
                        ELSE Unknown,
   from_known       |-> v.sees_src \/ v.sees_prev,
   to_known         |-> v.sees_dst \/ v.sees_next,
   layers_remaining |-> Get(pkt, "layers", 3) - 1,
   synthesized      |-> FALSE]

\* RelayAgent.build_log_entry: what a live relay of this role reports (the
\* entry carries no "synthesized" key, which reads as false)
build_log_entry(role, pkt) ==
  LET v == ROLE_VISIBILITY[role] IN
  [relay            |-> role,
   circuit_id       |-> Get(pkt, "circuit_id", 0),
   from_ip          |-> IF v.sees_src THEN pkt.src
                        ELSE IF v.sees_prev THEN Get(pkt, "prev_hop", Unknown)
                        ELSE Unknown,
   to_ip            |-> IF v.sees_dst THEN pkt.dst
                        ELSE IF v.sees_next THEN NEXT_HOP[role]
                        ELSE Unknown,
   from_known       |-> v.sees_src \/ v.sees_prev,
   to_known         |-> v.sees_dst \/ v.sees_next,
   layers_remaining |-> Get(pkt, "layers", 3) - 1,
   synthesized      |-> FALSE]

\* coordinator synthesize_log: the fallback entry when no relay is attached
synthesize_log(role, pkt) ==
  LET vis == CASE role = "guard"  -> <<pkt.src, "middle-relay", TRUE, TRUE>>
               [] role = "middle" -> <<"guard-node", "exit-node", TRUE, TRUE>>
               [] role = "exit"   -> <<"middle-relay", pkt.dst, TRUE, TRUE>>
  IN [relay            |-> role,
      circuit_id       |-> pkt.circuit_id,
      from_ip          |-> vis[1],
      to_ip            |-> vis[2],
      from_known       |-> vis[3],
      to_known         |-> vis[4],
      layers_remaining |-> pkt.layers - 1,
      synthesized      |-> TRUE]

\* the fields the two paths are compared on
Meaning(e) == <<e.from_ip, e.to_ip, e.from_known, e.to_known, e.layers_remaining>>


(* ------------------------------- state --------------------------------- *)
VARIABLES
  agents,           \* role -> relay connection registered for it (0: none)
  browsers,         \* the observer set
  bsock,            \* browser connection -> "new" | "open" | "closed"
  circuit_counter,  \* circuits originated so far
  timing_log,       \* terminal role -> sequence of circuit ids sampled
  circ,             \* circuit id -> the send_circuit task's position and locals (a sequence)
  copen,            \* relay connection -> "new" | "open" | "closed"
  hpc,              \* relay connection -> position of its coordinator handler
  hrole,            \* relay connection -> role it registered
  hit,              \* relay connection -> iterator of the handler's broadcast
  toRelay,          \* relay connection -> messages travelling to the endpoint
  messages,         \* relay connection -> received messages not yet read
  waiter,           \* relay connection -> who is parked in recv (0 none, -1 handler, else circuit)
  sched,            \* auto_scheduler position: "sleep" | "await" | "dead"
  count,            \* auto_scheduler's count of circuits it completed
  correlations,     \* run_ai_correlation tasks created so far
  disconnected,     \* relay connections whose handler printed "Agent disconnected"
  events,           \* circuit id -> the events about it handed to broadcast_to_browsers, in order
  pop,              \* the environment of this behaviour: how many of each it has
  vis_role, vis_pkt, vis_live, vis_synth   \* inputs and results of the visibility functions

vars == <<agents, browsers, bsock, circuit_counter, timing_log, circ, copen, hpc,
          hrole, hit, toRelay, messages, waiter, sched, count, correlations, disconnected,
          events, pop, vis_role, vis_pkt, vis_live, vis_synth>>

protoVars == <<agents, browsers, bsock, circuit_counter, timing_log, circ, copen, hpc,
               hrole, hit, toRelay, messages, waiter, sched, count, correlations,
               disconnected, events, pop>>
visVars == <<vis_role, vis_pkt, vis_live, vis_synth>>

Conns == 1..MaxConns
Browsers == 1..MaxBrowsers

\* what the environment of one behaviour consists of
Populations ==
  {p \in [circuits : 1..MaxCircuits, conns : 1..MaxConns, browsers : 1..MaxBrowsers] :
     p.circuits + p.conns + p.browsers = MaxTotal}
\* the roles the endpoint behind a connection may be started with
ConnRoles(c) == IF c % 2 = 1 THEN {"guard", "middle"} ELSE {"guard", "exit"}
CircuitSrc == "10.3.0.5"
CircuitDst == "93.184.10.2"

NoIt == [cur |-> 0, used |-> 0, snap |-> {}, visited |-> {}, dead |-> {}]
NoOut == [h \in 1..3 |-> "none"]
NoCircuit == [pc |-> "none", hop |-> 0, src |-> "", dst |-> "", prev_hop_ip |-> "",
              origin |-> "", it |-> NoIt, next |-> "", conn |-> 0, out |-> NoOut]
NoEntry == [relay |-> "", circuit_id |-> 0, from_ip |-> "", to_ip |-> "",
            from_known |-> FALSE, to_known |-> FALSE, layers_remaining |-> 0,
            synthesized |-> FALSE]

(* ------------------------- broadcast_to_browsers ----------------------- *)
\* `for ws in browsers`: the iterator is created and its first element is
\* fetched without suspending; an empty set ends the pass at once
BcFirst ==
  IF browsers = {} THEN {NoIt}
  ELSE {[cur |-> b, used |-> Cardinality(browsers), snap |-> browsers,
         visited |-> {}, dead |-> {}] : b \in browsers}

\* the size check the set iterator makes when it is asked for the next element
SetChangedSizeDuringIteration(it) == Cardinality(browsers) # it.used

\* resuming after `await ws.send(...)` to it.cur: the send's outcome, then the
\* iterator's next element, or the end of the pass and difference_update(dead)
BcResume(it) ==
  LET dead2 == IF bsock[it.cur] = "open" THEN it.dead ELSE it.dead \cup {it.cur}
      vis2  == it.visited \cup {it.cur}
      rest  == browsers \ vis2
      must  == rest \cap it.snap
  IN IF SetChangedSizeDuringIteration(it)
     THEN {[kind |-> "raise", it |-> NoIt, left |-> browsers]}
     ELSE {[kind |-> "more", it |-> [it EXCEPT !.cur = b, !.visited = vis2, !.dead = dead2],
            left |-> browsers] : b \in rest}
          \cup (IF must = {}
                THEN {[kind |-> "done", it |-> NoIt, left |-> browsers \ dead2]}
                ELSE {})

\* a task that has called broadcast_to_browsers and continues at `next`
EnterBc(rec, it, next) ==
  IF it.cur = 0 THEN [rec EXCEPT !.pc = next, !.it = NoIt, !.next = ""]
  ELSE [rec EXCEPT !.pc = "bc", !.it = it, !.next = next]

Event(type, cid, relay, synth, by, hop) ==
  [type |-> type, cid |-> cid, relay |-> relay, synthesized |-> synth,
   by |-> by, hop |-> hop]

\* broadcast_to_browsers is called with this event: it joins the stream of
\* the circuit its payload names
Emit(e) == [events EXCEPT ![e.cid] = Append(@, e)]

Started == 1..circuit_counter

\* main's gather has not been taken down by an exception in auto_scheduler
Running == sched # "dead"

\* Scheduling is cooperative: a task runs until it suspends.  A circuit at
\* "hop" or "advance" and a handler at "listen" have not suspended, so they
\* take the next step before any other task does.
Quiet ==
  /\ \A cid \in Started : circ[cid].pc \notin {"hop", "advance"}
  /\ \A c \in Conns : hpc[c] # "listen"

Suspended == Running /\ Quiet

\* an exception leaves send_circuit at this point
Raise(rec, why) == [rec EXCEPT !.pc = "aborted", !.it = NoIt, !.next = why, !.conn = 0]

\* the circuit task's new position; auto_scheduler awaits the circuit it
\* started: its count advances when the circuit returns, every
\* CorrelationEvery-th return creates a run_ai_correlation task, and an
\* exception leaving the circuit leaves auto_scheduler and main's gather as
\* well
Settle(cid, rec) ==
  /\ circ' = [circ EXCEPT ![cid] = rec]
  /\ sched' = IF rec.origin # "sched" THEN sched
              ELSE IF rec.pc = "aborted" THEN "dead"
              ELSE IF rec.pc = "finished" THEN "sleep"
              ELSE sched
  /\ count' = IF rec.origin = "sched" /\ rec.pc = "finished" THEN count + 1 ELSE count
  /\ correlations' = IF rec.origin = "sched" /\ rec.pc = "finished"
                         /\ (count + 1) % CorrelationEvery = 0
                      THEN correlations + 1 ELSE correlations

(* -------------------------------- Init --------------------------------- *)
VisIdle ==
  /\ vis_role = "guard"
  /\ vis_pkt = [circuit_id |-> 0, src |-> CircuitSrc, dst |-> CircuitDst,
                layers |-> 3, prev_hop |-> CircuitSrc]
  /\ vis_live = NoEntry
  /\ vis_synth = NoEntry

ProtoInit ==
  /\ agents = [r \in RoleSet |-> 0]
  /\ browsers = {}
  /\ bsock = [b \in Browsers |-> "new"]
  /\ circuit_counter = 0
  /\ timing_log = [r \in TerminalRoles |-> <<>>]
  /\ circ = <<>>
  /\ copen = [c \in Conns |-> "new"]
  /\ hpc = [c \in Conns |-> "none"]
  /\ hrole = [c \in Conns |-> ""]
  /\ hit = [c \in Conns |-> NoIt]
  /\ toRelay = [c \in Conns |-> <<>>]
  /\ messages = [c \in Conns |-> <<>>]
  /\ waiter = [c \in Conns |-> 0]
  /\ sched = "sleep"
  /\ count = 0
  /\ correlations = 0
  /\ disconnected = {}
  /\ events = <<>>

Init == ProtoInit /\ VisIdle /\ pop \in Populations

(* --------------------------- browser handler --------------------------- *)
\* handler, first message {"type": "browser"}: browsers.add(ws)
BrowserConnect(b) ==
  /\ Suspended
  /\ /\ bsock[b] = "new" /\ b <= pop.browsers
     /\ browsers' = browsers \cup {b}
     /\ bsock' = [bsock EXCEPT ![b] = "open"]
     /\ UNCHANGED <<agents, circuit_counter, timing_log, circ, copen, hpc, hrole, hit,
                    toRelay, messages, waiter, sched, count, events>>
  /\ UNCHANGED <<visVars, pop, correlations, disconnected>>

\* the browser's socket closes; its handler has not yet run its finally
BrowserClose(b) ==
  /\ Suspended
  /\ /\ bsock[b] = "open"
     /\ bsock' = [bsock EXCEPT ![b] = "closed"]
     /\ UNCHANGED <<agents, browsers, circuit_counter, timing_log, circ, copen, hpc, hrole,
                    hit, toRelay, messages, waiter, sched, count, events>>
  /\ UNCHANGED <<visVars, pop, correlations, disconnected>>

\* handler's finally: browsers.discard(ws)
BrowserDiscard(b) ==
  /\ Suspended
  /\ /\ bsock[b] = "closed" /\ b \in browsers
     /\ browsers' = browsers \ {b}
     /\ UNCHANGED <<agents, bsock, circuit_counter, timing_log, circ, copen, hpc, hrole,
                    hit, toRelay, messages, waiter, sched, count, events>>
  /\ UNCHANGED <<visVars, pop, correlations, disconnected>>

(* ---------------------------- relay handler ---------------------------- *)
\* a registration that keeps the connection a role already has
Register_keep_first(c, role) ==
  /\ Suspended
  /\ /\ copen[c] = "new" /\ c <= pop.conns
     /\ copen' = [copen EXCEPT ![c] = "open"]
     /\ hrole' = [hrole EXCEPT ![c] = role]
     /\ agents' = IF agents[role] = 0 THEN [agents EXCEPT ![role] = c] ELSE agents
     /\ \E it \in BcFirst :
          /\ hit' = [hit EXCEPT ![c] = it]
          /\ hpc' = [hpc EXCEPT ![c] = IF it.cur = 0 THEN "listen" ELSE "announce"]
     /\ UNCHANGED <<browsers, bsock, circuit_counter, timing_log, circ, toRelay, messages,
                    waiter, sched, count, events>>
  /\ UNCHANGED <<visVars, pop, correlations, disconnected>>

\* handler, first message {"type": "register"}: agents[role] = ws, then the
\* agent_connected broadcast begins
Register(c, role) ==
  /\ Suspended
  /\ /\ copen[c] = "new" /\ c <= pop.conns
     /\ copen' = [copen EXCEPT ![c] = "open"]
     /\ hrole' = [hrole EXCEPT ![c] = role]
     /\ agents' = [agents EXCEPT ![role] = c]
     /\ \E it \in BcFirst :
          /\ hit' = [hit EXCEPT ![c] = it]
          /\ hpc' = [hpc EXCEPT ![c] = IF it.cur = 0 THEN "listen" ELSE "announce"]
     /\ UNCHANGED <<browsers, bsock, circuit_counter, timing_log, circ, toRelay, messages,
                    waiter, sched, count, events>>
  /\ UNCHANGED <<visVars, pop, correlations, disconnected>>

\* a finally that deletes the role's entry whoever holds it
Unregister_any(c) ==
  /\ agents' = [agents EXCEPT ![hrole[c]] = 0]
  /\ disconnected' = disconnected \cup {c}

\* the finally of the handler: the role is unregistered, and the disconnect
\* printed, only if this connection is still the one registered
Unregister(c) ==
  /\ agents' = IF agents[hrole[c]] = c THEN [agents EXCEPT ![hrole[c]] = 0] ELSE agents
  /\ disconnected' = IF agents[hrole[c]] = c THEN disconnected \cup {c} ELSE disconnected

\* the handler's agent_connected broadcast resumes after a send; an exception
\* here is raised before the try/finally is entered
HandlerBc(c) ==
  /\ Suspended
  /\ /\ hpc[c] = "announce"
     /\ \E o \in BcResume(hit[c]) :
          /\ hit' = [hit EXCEPT ![c] = o.it]
          /\ browsers' = o.left
          /\ hpc' = [hpc EXCEPT ![c] = CASE o.kind = "raise" -> "crashed"
                                         [] o.kind = "more" -> "announce"
                                         [] o.kind = "done" -> "listen"]
          /\ copen' = [copen EXCEPT ![c] = IF o.kind = "raise" THEN "closed" ELSE @]
          /\ toRelay' = [toRelay EXCEPT ![c] = IF o.kind = "raise" THEN <<>> ELSE @]
     /\ UNCHANGED <<agents, bsock, circuit_counter, timing_log, circ, hrole, messages,
                    waiter, sched, count, events>>
  /\ UNCHANGED <<visVars, pop, correlations, disconnected>>

\* `async for _ in ws`: the handler calls recv() for the next message
HandlerRecv(c) ==
  /\ Running
  /\ /\ hpc[c] = "listen"
     /\ IF waiter[c] # 0
        THEN \* recv() while a circuit is parked in recv(): RuntimeError, finally runs
             /\ Unregister(c)
             /\ hpc' = [hpc EXCEPT ![c] = "ended"]
             /\ copen' = [copen EXCEPT ![c] = "closed"]
             /\ toRelay' = [toRelay EXCEPT ![c] = <<>>]
             /\ UNCHANGED <<messages, waiter>>
        ELSE IF messages[c] # <<>>
        THEN \* a queued message is read and dropped
             /\ messages' = [messages EXCEPT ![c] = Tail(@)]
             /\ UNCHANGED <<agents, hpc, copen, toRelay, waiter, disconnected>>
        ELSE IF copen[c] = "closed"
        THEN \* the iteration ends, finally runs
             /\ Unregister(c)
             /\ hpc' = [hpc EXCEPT ![c] = "ended"]
             /\ UNCHANGED <<messages, waiter, copen, toRelay>>
        ELSE \* nothing to read: the handler parks in recv()
             /\ waiter' = [waiter EXCEPT ![c] = -1]
             /\ hpc' = [hpc EXCEPT ![c] = "parked"]
             /\ UNCHANGED <<agents, messages, copen, toRelay, disconnected>>
     /\ UNCHANGED <<browsers, bsock, circuit_counter, timing_log, circ, hrole, hit,
                    sched, count, events>>
  /\ UNCHANGED <<visVars, pop, correlations>>

\* the parked handler sees the connection closed: the loop ends, finally runs
HandlerClosed(c) ==
  /\ Suspended
  /\ /\ hpc[c] = "parked" /\ copen[c] = "closed"
     /\ Unregister(c)
     /\ hpc' = [hpc EXCEPT ![c] = "ended"]
     /\ waiter' = [waiter EXCEPT ![c] = 0]
     /\ UNCHANGED <<browsers, bsock, circuit_counter, timing_log, circ, copen, hrole, hit,
                    toRelay, messages, sched, count, events>>
  /\ UNCHANGED <<visVars, pop, correlations>>

(* ---------------------------- relay endpoint --------------------------- *)
\* a message from the endpoint reaches the coordinator's connection: a parked
\* handler reads and drops it at once and parks again; otherwise it is queued
Deliver(c, m) ==
  IF waiter[c] = -1 THEN messages ELSE [messages EXCEPT ![c] = Append(@, m)]

\* an endpoint that has no answer to a ping
RelayReply_no_pong(role, m) ==
  CASE m.type = "packet" -> <<[type |-> "log", data |-> build_log_entry(role, m.data)]>>
    [] OTHER -> <<>>

\* RelayAgent.run, the branches on msg.get("type"): what is sent back
RelayReply(role, m) ==
  CASE m.type = "packet" -> <<[type |-> "log", data |-> build_log_entry(role, m.data)]>>
    [] m.type = "ping" -> <<[type |-> "pong", role |-> role]>>
    [] OTHER -> <<>>

\* RelayAgent.run: one message is read and answered before the next is read;
\* text that json.loads rejects raises out of run and the endpoint is gone
RelayRun(c) ==
  /\ Suspended
  /\ /\ copen[c] = "open" /\ toRelay[c] # <<>>
     /\ LET m == Head(toRelay[c])
            reply == RelayReply(hrole[c], m)
        IN IF m.type = "garbage"
           THEN /\ copen' = [copen EXCEPT ![c] = "closed"]
                /\ toRelay' = [toRelay EXCEPT ![c] = <<>>]
                /\ messages' = messages
           ELSE /\ copen' = copen
                /\ toRelay' = [toRelay EXCEPT ![c] = Tail(@)]
                /\ messages' = IF reply = <<>> THEN messages ELSE Deliver(c, reply[1])
     /\ UNCHANGED <<agents, browsers, bsock, circuit_counter, timing_log, circ, hpc,
                    hrole, hit, waiter, sched, count, events>>
  /\ UNCHANGED <<visVars, pop, correlations, disconnected>>

\* an endpoint that is not a RelayAgent answers a packet with a message of
\* another type ("pong") or with text that is not JSON ("garbage")
MalformedKinds == {"pong", "garbage"}
RogueReply(c, kind) ==
  /\ Suspended
  /\ /\ copen[c] = "open" /\ toRelay[c] # <<>>
     /\ toRelay' = [toRelay EXCEPT ![c] = Tail(@)]
     /\ messages' = Deliver(c, [type |-> kind, data |-> NoEntry])
     /\ UNCHANGED <<agents, browsers, bsock, circuit_counter, timing_log, circ, copen, hpc,
                    hrole, hit, waiter, sched, count, events>>
  /\ UNCHANGED <<visVars, pop, correlations, disconnected>>

\* the endpoint goes away
RelayDisconnect(c) ==
  /\ Suspended
  /\ /\ copen[c] = "open"
     /\ copen' = [copen EXCEPT ![c] = "closed"]
     /\ toRelay' = [toRelay EXCEPT ![c] = <<>>]
     /\ UNCHANGED <<agents, browsers, bsock, circuit_counter, timing_log, circ, hpc, hrole,
                    hit, messages, waiter, sched, count, events>>
  /\ UNCHANGED <<visVars, pop, correlations, disconnected>>


(* ----------------------------- send_circuit ---------------------------- *)
\* new_circuit_id, the circuit's locals, and the circuit_start broadcast
StartCircuit(origin, src, dst) ==
  LET cid == circuit_counter + 1
      rec == [NoCircuit EXCEPT !.hop = 1, !.src = src, !.dst = dst,
                               !.prev_hop_ip = src, !.origin = origin]
  IN /\ circuit_counter' = cid
     /\ events' = Append(events, <<Event("circuit_start", cid, "-", FALSE, cid, 0)>>)
     /\ \E it \in BcFirst : circ' = Append(circ, EnterBc(rec, it, "hop"))

\* a scheduler that originates on every tick, watched or not
SchedulerTick_unwatched(cap) ==
  /\ Suspended
  /\ /\ sched = "sleep" /\ circuit_counter < cap
     /\ StartCircuit("sched", CircuitSrc, CircuitDst)
     /\ sched' = "await" /\ count' = count
     /\ UNCHANGED <<agents, browsers, bsock, timing_log, copen, hpc, hrole, hit, toRelay,
                    messages, waiter>>
  /\ UNCHANGED <<visVars, pop, correlations, disconnected>>

\* auto_scheduler: `if browsers: await send_circuit()`
SchedulerTick(cap) ==
  /\ Suspended
  /\ /\ sched = "sleep" /\ circuit_counter < cap
     /\ browsers # {}
     /\ StartCircuit("sched", CircuitSrc, CircuitDst)
     /\ sched' = "await" /\ count' = count
     /\ UNCHANGED <<agents, browsers, bsock, timing_log, copen, hpc, hrole, hit, toRelay,
                    messages, waiter>>
  /\ UNCHANGED <<visVars, pop, correlations, disconnected>>

\* a registered browser sends send_packet: create_task(send_circuit(...))
SendPacket(b, cap) ==
  /\ Suspended
  /\ /\ b \in browsers /\ bsock[b] = "open" /\ circuit_counter < cap
     /\ StartCircuit("manual", CircuitSrc, CircuitDst)
     /\ UNCHANGED <<agents, browsers, bsock, timing_log, copen, hpc, hrole, hit, toRelay,
                    messages, waiter, sched, count>>
  /\ UNCHANGED <<visVars, pop, correlations, disconnected>>

\* a broadcast of the circuit resumes after a send
CircuitBc(cid) ==
  /\ Suspended
  /\ /\ circ[cid].pc = "bc"
     /\ \E o \in BcResume(circ[cid].it) :
          /\ browsers' = o.left
          /\ Settle(cid, CASE o.kind = "raise" -> Raise(circ[cid], "RuntimeError:set")
                           [] o.kind = "more" -> [circ[cid] EXCEPT !.it = o.it]
                           [] o.kind = "done" -> EnterBc(circ[cid], NoIt, circ[cid].next))
     /\ UNCHANGED <<agents, bsock, circuit_counter, timing_log, copen, hpc, hrole, hit,
                    toRelay, messages, waiter, events>>
  /\ UNCHANGED <<visVars, pop, disconnected>>

HopRole(cid) == Roles[circ[cid].hop]

\* pkt = {**pkt_base, "id": ..., "layers": 3 - i, "prev_hop": prev_hop_ip}
HopPacket(cid) ==
  [circuit_id |-> cid, src |-> circ[cid].src, dst |-> circ[cid].dst,
   id |-> <<cid, circ[cid].hop>>, layers |-> 3 - (circ[cid].hop - 1),
   prev_hop |-> circ[cid].prev_hop_ip]

\* timing_log[role].append(...) for the terminal roles
Sample(role, cid) ==
  IF role \in TerminalRoles THEN [timing_log EXCEPT ![role] = Append(@, cid)]
  ELSE timing_log

\* top of the loop body: a registered role gets the packet sent to its
\* connection, an unregistered one is synthesized, sampled and broadcast
HopBegin(cid) ==
  /\ Running
  /\ LET role == HopRole(cid)
         c == agents[role]
     IN /\ circ[cid].pc = "hop"
        /\ IF c # 0
           THEN /\ IF copen[c] = "open"
                   THEN /\ toRelay' = [toRelay EXCEPT ![c] =
                                         Append(@, [type |-> "packet", data |-> HopPacket(cid)])]
                        /\ Settle(cid, [circ[cid] EXCEPT !.pc = "sent"])
                   ELSE /\ toRelay' = toRelay
                        /\ Settle(cid, Raise(circ[cid], "ConnectionClosed:send"))
                /\ UNCHANGED <<timing_log, events, browsers>>
           ELSE LET synth == synthesize_log(role, HopPacket(cid)) IN
                /\ timing_log' = Sample(role, cid)
                /\ events' = Emit(Event("relay_log", synth.circuit_id, synth.relay,
                                                  synth.synthesized, cid, circ[cid].hop))
                /\ \E it \in BcFirst :
                     Settle(cid, EnterBc([circ[cid] EXCEPT !.out[circ[cid].hop] = "synth"],
                                         it, "sleep"))
                /\ UNCHANGED <<toRelay, browsers>>
        /\ UNCHANGED <<agents, bsock, circuit_counter, copen, hpc, hrole, hit, messages, waiter>>
  /\ UNCHANGED <<visVars, pop, disconnected>>

\* json.loads(raw) and the `if log_msg.get("type") == "log"` block
ProcessRaw(cid, m) ==
  LET role == HopRole(cid)
      h == circ[cid].hop
  IN IF m.type = "garbage"
     THEN /\ Settle(cid, Raise(circ[cid], "JSONDecodeError"))
          /\ UNCHANGED <<timing_log, events>>
     ELSE IF m.type = "log"
     THEN /\ timing_log' = Sample(role, cid)
          /\ events' = Emit(Event("relay_log", m.data.circuit_id, m.data.relay,
                                            m.data.synthesized, cid, h))
          /\ \E it \in BcFirst :
               Settle(cid, EnterBc([circ[cid] EXCEPT !.out[h] = "live", !.conn = 0],
                                   it, "advance"))
     ELSE /\ Settle(cid, [circ[cid] EXCEPT !.pc = "advance", !.out[h] = "wrongtype",
                                           !.conn = 0])
          /\ UNCHANGED <<timing_log, events>>

\* after the send: wait_for(agents[role].recv(), timeout=3.0) looks the role
\* up again and calls recv() on what it finds
HopRecv(cid) ==
  /\ Suspended
  /\ LET role == HopRole(cid)
         c == agents[role]
     IN /\ circ[cid].pc = "sent"
        /\ IF c = 0
           THEN /\ Settle(cid, Raise(circ[cid], "KeyError"))
                /\ UNCHANGED <<messages, waiter, timing_log, events>>
           ELSE IF waiter[c] # 0
           THEN /\ Settle(cid, Raise(circ[cid], "RuntimeError:recv"))
                /\ UNCHANGED <<messages, waiter, timing_log, events>>
           ELSE IF messages[c] # <<>>
           THEN /\ messages' = [messages EXCEPT ![c] = Tail(@)]
                /\ ProcessRaw(cid, Head(messages[c]))
                /\ UNCHANGED waiter
           ELSE IF copen[c] # "open"
           THEN /\ Settle(cid, Raise(circ[cid], "ConnectionClosed:recv"))
                /\ UNCHANGED <<messages, waiter, timing_log, events>>
           ELSE /\ waiter' = [waiter EXCEPT ![c] = cid]
                /\ Settle(cid, [circ[cid] EXCEPT !.pc = "wait", !.conn = c])
                /\ UNCHANGED <<messages, timing_log, events>>
        /\ UNCHANGED <<agents, browsers, bsock, circuit_counter, copen, hpc, hrole, hit, toRelay>>
  /\ UNCHANGED <<visVars, pop, disconnected>>

\* the parked recv() returns the message that arrived
HopWake(cid) ==
  /\ Suspended
  /\ LET c == circ[cid].conn IN
     /\ circ[cid].pc = "wait" /\ messages[c] # <<>>
     /\ messages' = [messages EXCEPT ![c] = Tail(@)]
     /\ waiter' = [waiter EXCEPT ![c] = 0]
     /\ ProcessRaw(cid, Head(messages[c]))
     /\ UNCHANGED <<agents, browsers, bsock, circuit_counter, copen, hpc, hrole, hit, toRelay>>
  /\ UNCHANGED <<visVars, pop, disconnected>>

\* a timeout that records a timing sample all the same
HopTimeout_sampled(cid) ==
  /\ Suspended
  /\ LET c == circ[cid].conn IN
     /\ circ[cid].pc = "wait" /\ messages[c] = <<>> /\ copen[c] = "open"
     /\ waiter' = [waiter EXCEPT ![c] = 0]
     /\ Settle(cid, [circ[cid] EXCEPT !.pc = "advance", !.out[circ[cid].hop] = "timeout",
                                      !.conn = 0])
     /\ timing_log' = Sample(HopRole(cid), cid)
     /\ UNCHANGED <<agents, browsers, bsock, circuit_counter, copen, hpc, hrole,
                    hit, toRelay, messages, events>>
  /\ UNCHANGED <<visVars, pop, disconnected>>

\* asyncio.TimeoutError: the warning is printed and the loop goes on
HopTimeout(cid) ==
  /\ Suspended
  /\ LET c == circ[cid].conn IN
     /\ circ[cid].pc = "wait" /\ messages[c] = <<>> /\ copen[c] = "open"
     /\ waiter' = [waiter EXCEPT ![c] = 0]
     /\ Settle(cid, [circ[cid] EXCEPT !.pc = "advance", !.out[circ[cid].hop] = "timeout",
                                      !.conn = 0])
     /\ UNCHANGED <<agents, browsers, bsock, circuit_counter, timing_log, copen, hpc, hrole,
                    hit, toRelay, messages, events>>
  /\ UNCHANGED <<visVars, pop, disconnected>>

\* the connection closes under the parked recv(): ConnectionClosed
HopConnLost(cid) ==
  /\ Suspended
  /\ LET c == circ[cid].conn IN
     /\ circ[cid].pc = "wait" /\ messages[c] = <<>> /\ copen[c] = "closed"
     /\ waiter' = [waiter EXCEPT ![c] = 0]
     /\ Settle(cid, Raise(circ[cid], "ConnectionClosed:recv"))
     /\ UNCHANGED <<agents, browsers, bsock, circuit_counter, timing_log, copen, hpc, hrole,
                    hit, toRelay, messages, events>>
  /\ UNCHANGED <<visVars, pop, disconnected>>

\* asyncio.sleep(0.1 + ...) after a synthesized hop is over
HopSleep(cid) ==
  /\ Suspended
  /\ /\ circ[cid].pc = "sleep"
     /\ Settle(cid, [circ[cid] EXCEPT !.pc = "advance"])
     /\ UNCHANGED <<agents, browsers, bsock, circuit_counter, timing_log, copen, hpc, hrole,
                    hit, toRelay, messages, waiter, events>>
  /\ UNCHANGED <<visVars, pop, disconnected>>

\* an advance that keeps the previous hop when the hop yielded no entry
HopAdvance_keep_prev(cid) ==
  /\ Running
  /\ LET rec == [circ[cid] EXCEPT !.prev_hop_ip =
                 IF circ[cid].out[circ[cid].hop] = "timeout" THEN @
                 ELSE ROLE_IPS[HopRole(cid)]] IN
     /\ circ[cid].pc = "advance"
     /\ IF circ[cid].hop < Len(Roles)
        THEN /\ Settle(cid, [rec EXCEPT !.pc = "hop", !.hop = @ + 1])
             /\ UNCHANGED events
        ELSE /\ events' = Emit(Event("circuit_done", cid, "-", FALSE, cid, 0))
             /\ \E it \in BcFirst : Settle(cid, EnterBc(rec, it, "finished"))
     /\ UNCHANGED <<agents, browsers, bsock, circuit_counter, timing_log, copen, hpc, hrole,
                    hit, toRelay, messages, waiter>>
  /\ UNCHANGED <<visVars, pop, disconnected>>

\* prev_hop_ip = {...}.get(role), then the next hop, or after the last one
\* the circuit_done broadcast
HopAdvance(cid) ==
  /\ Running
  /\ LET rec == [circ[cid] EXCEPT !.prev_hop_ip = ROLE_IPS[HopRole(cid)]] IN
     /\ circ[cid].pc = "advance"
     /\ IF circ[cid].hop < Len(Roles)
        THEN /\ Settle(cid, [rec EXCEPT !.pc = "hop", !.hop = @ + 1])
             /\ UNCHANGED events
        ELSE /\ events' = Emit(Event("circuit_done", cid, "-", FALSE, cid, 0))
             /\ \E it \in BcFirst : Settle(cid, EnterBc(rec, it, "finished"))
     /\ UNCHANGED <<agents, browsers, bsock, circuit_counter, timing_log, copen, hpc, hrole,
                    hit, toRelay, messages, waiter>>
  /\ UNCHANGED <<visVars, pop, disconnected>>

(* --------------------------- specifications ---------------------------- *)
Next ==
  \/ \E b \in Browsers : BrowserConnect(b)
  \/ \E b \in Browsers : BrowserClose(b)
  \/ \E b \in Browsers : BrowserDiscard(b)
  \/ \E c \in Conns : \E r \in ConnRoles(c) : Register(c, r)
  \/ \E c \in Conns : HandlerBc(c)
  \/ \E c \in Conns : HandlerRecv(c)
  \/ \E c \in Conns : HandlerClosed(c)
  \/ \E c \in Conns : RelayRun(c)
  \/ \E c \in Conns, k \in MalformedKinds : RogueReply(c, k)
  \/ \E c \in Conns : RelayDisconnect(c)
  \/ SchedulerTick(pop.circuits)
  \/ \E b \in Browsers : SendPacket(b, pop.circuits)
  \/ \E cid \in Started : CircuitBc(cid)
  \/ \E cid \in Started : HopBegin(cid)
  \/ \E cid \in Started : HopRecv(cid)
  \/ \E cid \in Started : HopWake(cid)
  \/ \E cid \in Started : HopTimeout(cid)
  \/ \E cid \in Started : HopConnLost(cid)
  \/ \E cid \in Started : HopSleep(cid)
  \/ \E cid \in Started : HopAdvance(cid)

Spec == Init /\ [][Next]_vars


(* ---------------------- visibility specification ----------------------- *)
\* packets as the coordinator builds them, and packets without a prev_hop key
Packets ==
  [circuit_id : 1..2, src : Srcs, dst : Dsts, layers : LayerVals, prev_hop : PrevHops]
  \cup [circuit_id : 1..2, src : Srcs, dst : Dsts, layers : LayerVals]

InitVis ==
  /\ ProtoInit
  /\ pop = [circuits |-> 0, conns |-> 0, browsers |-> 0]
  /\ vis_role \in RoleSet
  /\ vis_pkt \in Packets
  /\ vis_live = NoEntry
  /\ vis_synth = NoEntry

\* a live relay of role vis_role is handed vis_pkt
ApplyLive ==
  /\ vis_live = NoEntry
  /\ vis_live' = build_log_entry(vis_role, vis_pkt)
  /\ UNCHANGED <<protoVars, vis_role, vis_pkt, vis_synth>>

\* the coordinator synthesizes the entry of role vis_role for vis_pkt
ApplySynth ==
  /\ vis_synth = NoEntry
  /\ vis_synth' = synthesize_log(vis_role, vis_pkt)
  /\ UNCHANGED <<protoVars, vis_role, vis_pkt, vis_live>>

NextVis == ApplyLive \/ ApplySynth

SpecVis == InitVis /\ [][NextVis]_vars

(* ------------------------ volume specification ------------------------- *)
\* one browser watches and the scheduler alone originates circuits, with no
\* relay attached
InitVolume ==
  /\ ProtoInit /\ VisIdle
  /\ pop = [circuits |-> MaxVolume, conns |-> 0, browsers |-> 1]

NextVolume ==
  \/ \E b \in Browsers : BrowserConnect(b)
  \/ \E b \in Browsers : BrowserClose(b)
  \/ \E b \in Browsers : BrowserDiscard(b)
  \/ SchedulerTick(pop.circuits)
  \/ \E cid \in Started : CircuitBc(cid)
  \/ \E cid \in Started : HopBegin(cid)
  \/ \E cid \in Started : HopSleep(cid)
  \/ \E cid \in Started : HopAdvance(cid)

SpecVolume == InitVolume /\ [][NextVolume]_vars

(* ---------------------- correlation specification ---------------------- *)
\* one browser watches and may request circuits of its own while the
\* scheduler originates its circuits, with no relay attached
InitCorrelation ==
  /\ ProtoInit /\ VisIdle
  /\ pop = [circuits |-> MaxCounted, conns |-> 0, browsers |-> 1]

Manual == {cid \in Started : circ[cid].origin = "manual"}

NextCorrelation ==
  \/ \E b \in Browsers : BrowserConnect(b)
  \/ SchedulerTick(pop.circuits)
  \/ \E b \in Browsers : Cardinality(Manual) < MaxManual /\ SendPacket(b, pop.circuits)
  \/ \E cid \in Started : CircuitBc(cid)
  \/ \E cid \in Started : HopBegin(cid)
  \/ \E cid \in Started : HopSleep(cid)
  \/ \E cid \in Started : HopAdvance(cid)

SpecCorrelation == InitCorrelation /\ [][NextCorrelation]_vars

(* -------------------------- relay specification ------------------------ *)
\* a relay endpoint of some role, connected to a peer that has sent it up to
\* MaxInbox messages of any kind and queues what the endpoint sends back
RelayPackets ==
  {[circuit_id |-> k, src |-> CircuitSrc, dst |-> CircuitDst, id |-> <<k, 1>>,
    layers |-> 3, prev_hop |-> CircuitSrc] : k \in 1..2}
RelayInputs ==
  {[type |-> "packet", data |-> p] : p \in RelayPackets}
  \cup {[type |-> "ping"], [type |-> "noop"], [type |-> "garbage"]}
Inboxes == UNION {[1..n -> RelayInputs] : n \in 0..MaxInbox}

InitRelay ==
  /\ VisIdle
  /\ pop = [circuits |-> 0, conns |-> 1, browsers |-> 0]
  /\ agents = [r \in RoleSet |-> 0]
  /\ browsers = {}
  /\ bsock = [b \in Browsers |-> "new"]
  /\ circuit_counter = 0
  /\ timing_log = [r \in TerminalRoles |-> <<>>]
  /\ circ = <<>>
  /\ copen = [c \in Conns |-> IF c = 1 THEN "open" ELSE "new"]
  /\ hpc = [c \in Conns |-> "none"]
  /\ \E role \in RoleSet : hrole = [c \in Conns |-> IF c = 1 THEN role ELSE ""]
  /\ hit = [c \in Conns |-> NoIt]
  /\ \E inbox \in Inboxes : toRelay = [c \in Conns |-> IF c = 1 THEN inbox ELSE <<>>]
  /\ messages = [c \in Conns |-> <<>>]
  /\ waiter = [c \in Conns |-> 0]
  /\ sched = "sleep"
  /\ count = 0
  /\ correlations = 0
  /\ disconnected = {}
  /\ events = <<>>

NextRelay == \E c \in Conns : RelayRun(c)

SpecRelay == InitRelay /\ [][NextRelay]_vars

\* run_ai_correlation: the slice timing_log[role][-10:] handed to the analyst
Recent(role) ==
  LET n == Len(timing_log[role]) IN
  SubSeq(timing_log[role], IF n > Window THEN n - Window + 1 ELSE 1, n)


(* ------------------------------ properties ----------------------------- *)
RoleIndex(r) == CHOOSE i \in 1..Len(Roles) : Roles[i] = r
Finished(cid) == circ[cid].pc = "finished"
Aborted(cid) == circ[cid].pc = "aborted"
\* the relay_log events circuit cid itself forwarded
Forwarded(cid) ==
  {e \in UNION {{events[k][i] : i \in 1..Len(events[k])} : k \in Started} :
     e.type = "relay_log" /\ e.by = cid}
Positions(cid, type) == {i \in 1..Len(events[cid]) : events[cid][i].type = type}

\* C1: the event stream of every completed circuit is one circuit_start, then
\* its relay_log events in ascending hop order, then one circuit_done.
C1_StartLogsDoneInOrder ==
  \A cid \in Started :
    LET ev == events[cid] IN
    Positions(cid, "circuit_done") # {} =>
      /\ Positions(cid, "circuit_start") = {1}
      /\ Positions(cid, "circuit_done") = {Len(ev)}
      /\ \A i, j \in Positions(cid, "relay_log") :
           i < j => RoleIndex(ev[i].relay) < RoleIndex(ev[j].relay)

\* C2: a circuit that has emitted circuit_start is never abandoned before its
\* circuit_done: no exception ever leaves send_circuit.
C2_NeverAbortsMidFlight ==
  \A cid \in Started : ~Aborted(cid)

\* C3: in a circuit that finds guard and exit registered and middle not, the
\* hop that dispatched a packet receives on the relay's connection, and once
\* the circuit is done guard and exit have a relay-reported entry and middle
\* a synthesized one.
C3_Pattern(cid) ==
  /\ agents["guard"] # 0 /\ agents["exit"] # 0 /\ agents["middle"] = 0
  /\ \A c \in Conns : copen[c] = "open" /\ hpc[c] \in {"announce", "parked"}
  /\ \A h \in 1..3 : circ[cid].out[h] \in
       (IF Roles[h] = "middle" THEN {"none", "synth"} ELSE {"none", "live"})
C3_GuardExitLiveMiddleSynth ==
  \A cid \in Started :
    C3_Pattern(cid) =>
      /\ ~(Aborted(cid) /\ circ[cid].next = "RuntimeError:recv")
      /\ Finished(cid) => circ[cid].out = <<"live", "synth", "live">>

\* C4: a hop that timed out leaves no log entry, and the circuit it belongs
\* to goes on through its remaining hops to circuit_done.
TimedOut(cid) == {h \in 1..3 : circ[cid].out[h] = "timeout"}
C4_TimeoutSkipsHopOnly ==
  \A cid \in Started :
    TimedOut(cid) # {} =>
      /\ \A e \in Forwarded(cid) : e.hop \notin TimedOut(cid)
      /\ ~Aborted(cid)

\* C5: a malformed response (another message type, or text that does not
\* parse) is handled as a timeout is: nothing is forwarded or sampled for the
\* hop and the circuit goes on.
Malformed(cid) == {h \in 1..3 : circ[cid].out[h] = "wrongtype"}
C5_MalformedIsTimeout ==
  \A cid \in Started :
    /\ \A e \in Forwarded(cid) : e.hop \notin Malformed(cid)
    /\ ~(Aborted(cid) /\ circ[cid].next = "JSONDecodeError")

\* C6: a circuit that finds no endpoint registered at any of its hops
\* forwards exactly three entries, guard, middle, exit, all synthesized.
C6_AllSynth(cid) ==
  /\ \A r \in RoleSet : agents[r] = 0
  /\ \A c \in Conns : copen[c] = "new"
C6_ThreeSynthesizedEntries ==
  \A cid \in Started :
    C6_AllSynth(cid) =>
      /\ ~Aborted(cid)
      /\ Finished(cid) =>
           /\ Len(events[cid]) = 5
           /\ \A h \in 1..3 : /\ events[cid][h + 1].type = "relay_log"
                              /\ events[cid][h + 1].relay = Roles[h]
                              /\ events[cid][h + 1].synthesized

\* C7: the timing log of each terminal role never holds more than 10 samples.
C7_TimingLogBounded ==
  \A r \in TerminalRoles : Len(timing_log[r]) <= Window

\* C8: for the same role and packet the synthesized entry and the live entry
\* agree on from_ip, to_ip, from_known, to_known and layers_remaining.
C8_SynthEqualsLive ==
  (vis_live # NoEntry /\ vis_synth # NoEntry) => Meaning(vis_live) = Meaning(vis_synth)

\* C9: the live entry follows the capability table of the role: from_ip is
\* the source if the role sees it, else the previous hop if the role sees
\* that, else the sentinel; to_ip is the destination if seen, else the next
\* role's label if the next hop is seen, else the sentinel; the two flags are
\* the OR of the contributing capabilities; layers_remaining is layers - 1.
SeesSource == {"guard"}
SeesDestination == {"exit"}
SeesPreviousHop == {"middle", "exit"}
SeesNextHop == {"guard", "middle"}
NextRoleLabel(r) == IF r = "guard" THEN "middle" ELSE "exit"
C9_LiveEntryFollowsTable ==
  vis_live # NoEntry =>
    LET r == vis_role
        p == vis_pkt
    IN /\ vis_live.relay = r
       /\ vis_live.from_ip =
            (IF r \in SeesSource THEN p.src
             ELSE IF r \in SeesPreviousHop /\ "prev_hop" \in DOMAIN p THEN p.prev_hop
             ELSE Unknown)
       /\ vis_live.to_ip =
            (IF r \in SeesDestination THEN p.dst
             ELSE IF r \in SeesNextHop THEN NextRoleLabel(r)
             ELSE Unknown)
       /\ vis_live.from_known = (r \in SeesSource \/ r \in SeesPreviousHop)
       /\ vis_live.to_known = (r \in SeesDestination \/ r \in SeesNextHop)
       /\ vis_live.layers_remaining = p.layers - 1
       /\ (r = "guard" /\ p.layers = 3) =>
            /\ vis_live.from_ip = p.src /\ vis_live.to_ip = "middle"
            /\ vis_live.layers_remaining = 2

\* the exit example of the spec has been computed
C9_ExitExampleReached ==
  /\ vis_role = "exit"
  /\ vis_pkt = [circuit_id |-> 1, src |-> "10.3.0.5", dst |-> "93.184.10.2",
                layers |-> 1, prev_hop |-> "10.0.2.2"]
  /\ vis_live.from_ip = "10.0.2.2" /\ vis_live.to_ip = "93.184.10.2"
  /\ vis_live.from_known /\ vis_live.to_known
  /\ vis_live.layers_remaining = 0

\* C10: a browser joining or leaving while a circuit's broadcast is suspended
\* between two sends raises nothing in the circuit, which continues.
C10_BroadcastToleratesChurn ==
  \A cid \in Started : ~(Aborted(cid) /\ circ[cid].next = "RuntimeError:set")

\* the observers a suspended pass has sent to so far, the one it is sending
\* to included, and those among them whose send failed
PassSent(it) == it.visited \cup {it.cur}
PassFailed(it) == IF bsock[it.cur] = "open" THEN it.dead ELSE it.dead \cup {it.cur}

\* C11: when a circuit's broadcast pass ends, every observer that was in the
\* set when the pass began, is still in it and has a working connection has
\* been sent the event, and the set loses exactly the observers whose send
\* failed.
C11_SendFailureIsolated ==
  [][\A cid \in Started :
       (circ[cid].pc = "bc" /\ circ'[cid].pc # "bc") =>
         LET it == circ[cid].it IN
         /\ \A b \in it.snap \cap browsers : bsock[b] = "open" => b \in PassSent(it)
         /\ browsers' = browsers \ PassFailed(it)]_vars

\* C12: a relay that disconnects while a hop is waiting on its response makes
\* the hop take the timeout path: the circuit is not abandoned in recv().
C12_DisconnectIsTimeout ==
  [][\A cid \in Started :
       circ[cid].pc = "wait" =>
         ~(circ'[cid].pc = "aborted" /\ circ'[cid].next = "ConnectionClosed:recv")]_vars

\* C13: every role maps to at most one connection; a registration makes its
\* connection the role's entry whatever the entry was; the entry changes only
\* by a registration or by becoming empty; and a packet is dispatched only to
\* the connection that is the entry of the hop's role.
C13_LastRegistrationWins ==
  /\ [](\A r \in RoleSet : agents[r] \in Conns \cup {0})
  /\ [][/\ \A c \in Conns :
             (copen[c] = "new" /\ copen'[c] = "open") => agents'[hrole'[c]] = c
        /\ \A r \in RoleSet :
             agents'[r] # agents[r] =>
               \/ agents'[r] = 0
               \/ copen[agents'[r]] = "new" /\ hrole'[agents'[r]] = r
        /\ \A c \in Conns :
             Len(toRelay'[c]) > Len(toRelay[c]) =>
               \E cid \in Started :
                 /\ circ[cid].pc = "hop" /\ circ'[cid].pc = "sent"
                 /\ agents[HopRole(cid)] = c
                 /\ toRelay'[c] = Append(toRelay[c],
                                         [type |-> "packet", data |-> HopPacket(cid)])]_vars

\* guard was registered by connection 1 and then by connection 2, both are
\* open, and a guard packet has been dispatched: it went to connection 2
C13_PacketToNewest ==
  /\ hrole[1] = "guard" /\ hrole[2] = "guard"
  /\ copen[1] = "open" /\ copen[2] = "open"
  /\ agents["guard"] = 2
  /\ toRelay[2] # <<>> /\ toRelay[1] = <<>>

C15_EveryFifthCircuit ==
  (\A cid \in Started : Finished(cid)) =>
    correlations = circuit_counter \div CorrelationEvery

\* C16: every relay_log a circuit forwards carries that circuit's id and the
\* role of the hop that forwarded it.
C16_LogBelongsToHop ==
  \A cid \in Started :
    \A e \in Forwarded(cid) : e.cid = cid /\ e.relay = Roles[e.hop]

\* C17: the packet a circuit dispatches at its hop h (h = i + 1) has the id
\* made of the circuit's id and h, layers 3 - i, and as prev_hop the circuit's
\* source at the first hop and the fixed address of the role before it at the
\* others, whatever the outcome of the hops before.
C17_PacketFields ==
  [][\A cid \in Started :
       (circ[cid].pc = "hop" /\ circ'[cid].pc = "sent") =>
         LET h == circ[cid].hop
             q == toRelay'[agents[Roles[h]]]
             p == q[Len(q)].data
         IN /\ p.circuit_id = cid
            /\ p.id = <<cid, h>>
            /\ p.layers = 3 - (h - 1)
            /\ p.src = circ[cid].src /\ p.dst = circ[cid].dst
            /\ p.prev_hop = (CASE h = 1 -> circ[cid].src
                               [] h = 2 -> "10.0.1.2"
                               [] h = 3 -> "10.0.2.2")]_vars

\* the exit packet of a circuit whose guard hop timed out and whose middle
\* hop was synthesized has been dispatched
C17_ExitAfterTimeoutAndSynth ==
  \E cid \in Started :
    /\ circ[cid].pc = "sent" /\ circ[cid].hop = 3
    /\ circ[cid].out = <<"timeout", "synth", "none">>
    /\ agents["exit"] # 0
    /\ \E i \in 1..Len(toRelay[agents["exit"]]) :
         LET p == toRelay[agents["exit"]][i].data IN
         p.id = <<cid, 3>> /\ p.layers = 1 /\ p.prev_hop = "10.0.2.2"

\* C18: the timing log of a terminal role holds one sample for each circuit
\* whose hop of that role yielded a log entry, live or synthesized, carrying
\* that circuit's id, and nothing else; there is no log for the middle role.
Yielded(r) == {cid \in Started : circ[cid].out[RoleIndex(r)] \in {"live", "synth"}}
C18_SampleIffEntry ==
  /\ DOMAIN timing_log = {"guard", "exit"}
  /\ \A r \in DOMAIN timing_log :
       /\ Len(timing_log[r]) = Cardinality(Yielded(r))
       /\ {timing_log[r][i] : i \in 1..Len(timing_log[r])} = Yielded(r)

\* a circuit whose guard hop timed out, whose middle hop was synthesized and
\* whose exit hop got a live entry: one exit sample, no guard sample
C18_TimeoutSynthLive ==
  \E cid \in Started :
    /\ circ[cid].out = <<"timeout", "synth", "live">>
    /\ timing_log["exit"] = <<cid>>
    /\ timing_log["guard"] = <<>>

\* C19: the endpoint takes the messages sent to it one at a time, and before
\* it takes the next it has sent back: for a packet exactly one log, of its
\* role and of the packet's circuit; for a ping exactly one pong carrying its
\* role; for a message of another type nothing; and it is still running.
Sent(c) == SubSeq(messages'[c], Len(messages[c]) + 1, Len(messages'[c]))
C19_OneReplyPerMessage ==
  [][\A c \in Conns :
       (toRelay'[c] # toRelay[c] /\ Head(toRelay[c]).type # "garbage") =>
         LET m == Head(toRelay[c]) IN
         /\ toRelay'[c] = Tail(toRelay[c])
         /\ copen'[c] = "open"
         /\ messages'[c] = messages[c] \o Sent(c)
         /\ CASE m.type = "packet" ->
                   /\ Len(Sent(c)) = 1
                   /\ Sent(c)[1].type = "log"
                   /\ Sent(c)[1].data.relay = hrole[c]
                   /\ Sent(c)[1].data.circuit_id = m.data.circuit_id
              [] m.type = "ping" -> Sent(c) = <<[type |-> "pong", role |-> hrole[c]]>>
              [] OTHER -> Sent(c) = <<>>]_vars

\* the endpoint has taken every message sent to it, a packet and then a ping
\* among them, and has sent back one log and then one pong carrying its role
C19_AllKindsAnswered ==
  /\ toRelay[1] = <<>> /\ copen[1] = "open" /\ hpc[1] = "none"
  /\ Len(messages[1]) = 2
  /\ messages[1][1].type = "log" /\ messages[1][2].type = "pong"
  /\ messages[1][2].role = hrole[1]

\* C20: a handler that ends removes the entry of its role only if its
\* connection is the one registered for the role, and then the entry is
\* empty; the end of a connection that was replaced changes no entry.
C20_StaleDisconnectKeepsEntry ==
  [][\A c \in Conns :
       (hpc[c] # "ended" /\ hpc'[c] = "ended") =>
         IF agents[hrole[c]] = c
         THEN agents' = [agents EXCEPT ![hrole[c]] = 0]
         ELSE agents' = agents]_vars

\* connection 1 registered guard, connection 2 registered guard after it, and
\* the handler of connection 1 has ended without deleting the entry, which
\* still names connection 2
C20_StaleEnded ==
  /\ hrole[1] = "guard" /\ hrole[2] = "guard"
  /\ hpc[1] = "ended" /\ 1 \notin disconnected
  /\ agents["guard"] = 2 /\ copen[2] = "open"

====
